---- MODULE Spec2Model ----
(***************************************************************************)
(* Model of the multisig program: the Multisig registry account, one       *)
(* ProposalState account, one VoteState account and the clock, with one    *)
(* action per instruction handler (initialize_multisig, add_member,        *)
(* remove_member, init_proposal, process_vote).                            *)
(*                                                                         *)
(* A handler writes through the typed view that from_account_info returns, *)
(* so every assignment it makes before a return is in the account when it  *)
(* returns, whether it returns Ok or Err.                                  *)
(*                                                                         *)
(* Fields no handler reads (creator, proposal_expiry, treasury_wallet, the *)
(* bumps) are left out of the records.                                     *)
(***************************************************************************)
EXTENDS Integers, Sequences, FiniteSets, TLC

\* ---------------------------------------------------------------- bounds
\* Identities are 0..NumKeys; 0 is Pubkey::default(), the empty sentinel.
NumKeys == 1
\* The clock runs over 0..MaxTime.
MaxTime == 1
\* Requested proposal durations are 0..MaxDuration.
MaxDuration == 1
\* A run is at most MaxSteps instructions and clock ticks long, which also
\* bounds the counters total_proposals and vote_count.
MaxSteps == 6
\* initialize_multisig is offered member counts 0..MaxInit and thresholds
\* 0..MaxInit+1, besides the values at the capacity.
MaxInit == 1
\* The largest u64 of the model: u64 arithmetic is modulo MaxU64 + 1, which
\* stands for 2^64.
MaxU64 == 3

\* ------------------------------------------------------ program constants
MAX_MEMBERS == 10
VOTE_NOT_VOTED == 0
VOTE_FOR == 1
VOTE_AGAINST == 2
VOTE_ABSTAIN == 3

Keys == 0..NumKeys
DefaultPubkey == 0
Slots == 0..(MAX_MEMBERS - 1)
VoteTypes == VOTE_NOT_VOTED..(VOTE_ABSTAIN + 1)

VARIABLES
    multisig,      \* the Multisig account
    proposal,      \* the ProposalState account
    vote_state,    \* the VoteState account
    now,           \* Clock::get().unix_timestamp as u64
    ret,           \* the last instruction and what it returned
    snapCount,     \* history: member_count when the proposal was created
    steps,         \* history: the instructions and ticks so far
    instruction,   \* the instruction handed to process_instruction
    latest         \* history: each identity's latest accepted vote

vars == <<multisig, proposal, vote_state, now, ret, snapCount, steps,
          instruction, latest>>

ZeroKeys == [i \in Slots |-> DefaultPubkey]
ZeroVotes == [i \in Slots |-> VOTE_NOT_VOTED]

\* The account data CreateAccount allocates: LEN zero bytes.
ZeroMultisigData ==
    [member_count |-> 0, memeber_keys |-> ZeroKeys, threshold |-> 0,
     total_proposals |-> 0]

\* The spec's error kinds, named by the return site; ProgramErrorOf gives the
\* ProgramError value the code returns there.
ProgramErrorOf(kind) ==
    CASE kind = "Ok" -> "Ok"
      [] kind \in {"InvalidParameter", "MalformedPayload", "InvalidVoteKind",
                   "UnsupportedOperation", "EmptyInstruction"}
            -> "InvalidInstructionData"
      [] kind = "InvalidAddress" -> "InvalidSeeds"
      [] kind = "AlreadyInitialized" -> "AccountAlreadyInitialized"
      [] kind = "Panic" -> "ProgramFailedToComplete"
      [] OTHER -> "InvalidAccountData"

Returned(op, kind) == [op |-> op, result |-> kind]

\* Multisig::from_account_info: the typed view of an account that holds data.
MultisigLoads == multisig.owner = "program"

\* Mutant: the scan runs over all ten slots instead of the first count.
IndexOf_all(keys, count, k) ==
    IF \E i \in Slots : keys[i] = k
    THEN CHOOSE i \in Slots :
            /\ keys[i] = k
            /\ \A j \in Slots : (keys[j] = k) => i <= j
    ELSE -1

\* The first index below member_count holding key k, or -1.
IndexOf(keys, count, k) ==
    IF \E i \in Slots : i < count /\ keys[i] = k
    THEN CHOOSE i \in Slots :
            /\ i < count /\ keys[i] = k
            /\ \A j \in Slots : (j < count /\ keys[j] = k) => i <= j
    ELSE -1

\* The identities of the ballot runs.
MaxBallot == 3
BallotKeys == 1..MaxBallot

\* No identity has voted.
NoLatest == [k \in BallotKeys |-> VOTE_NOT_VOTED]

\* No instruction bytes: the handlers are called with decoded arguments.
NoInstruction ==
    [data |-> <<>>, naccounts |-> 0, signer |-> DefaultPubkey,
     vote_account |-> "none", pdas |-> "ok"]

Init ==
    /\ instruction = NoInstruction
    /\ latest = NoLatest
    /\ multisig = [owner |-> "system"] @@ ZeroMultisigData
    /\ proposal = [created |-> FALSE, proposal_id |-> 0, expiry |-> 0,
                   result |-> "Active", active_members |-> ZeroKeys,
                   votes |-> ZeroVotes, created_time |-> 0]
    /\ vote_state = [has_permission |-> FALSE, vote_count |-> 0]
    /\ now = 0
    /\ ret = Returned("none", "Ok")
    /\ snapCount = 0
    /\ steps = 0

\* ------------------------------------------------------- initialize_multisig
\* pre names the first of the handler's opening checks that fails, or "ok".
InitPre == {"ok", "fewAccounts", "shortData", "badMultisigPda", "badTreasuryPda"}

\* The parameter validation of initialize_multisig.
InvalidInitParams(member_count, threshold) ==
    \/ member_count = 0 \/ member_count > MAX_MEMBERS
    \/ threshold = 0 \/ threshold > member_count

\* Mutant: initialize enters the first identity as the first member.
InitialKeys_creator == [ZeroKeys EXCEPT ![0] = 1]

\* [Pubkey::default(); 10]
InitialKeys == ZeroKeys

\* Mutant: the marker of an existing registry is never recognised.
AlreadyInitialized_never(m) == FALSE

\* The account already bears the program's marker.
AlreadyInitialized(m) == m.owner = "program"

initialize_multisig(pre, member_count, threshold) ==
    /\ UNCHANGED <<proposal, vote_state, now, snapCount>>
    /\ IF pre = "fewAccounts"
       THEN /\ ret' = Returned("initialize", "NotEnoughAccounts")
            /\ UNCHANGED multisig
       ELSE IF pre = "shortData"
       THEN /\ ret' = Returned("initialize", "MalformedPayload")
            /\ UNCHANGED multisig
       ELSE IF pre \in {"badMultisigPda", "badTreasuryPda"}
       THEN /\ ret' = Returned("initialize", "InvalidAddress")
            /\ UNCHANGED multisig
       ELSE IF AlreadyInitialized(multisig)
       THEN /\ ret' = Returned("initialize", "AlreadyInitialized")
            /\ UNCHANGED multisig
       ELSE IF InvalidInitParams(member_count, threshold)
       \* CreateAccount has run: the account is the program's, its data zero.
       THEN /\ ret' = Returned("initialize", "InvalidParameter")
            /\ multisig' = [owner |-> "program"] @@ ZeroMultisigData
       ELSE /\ ret' = Returned("initialize", "Ok")
            /\ multisig' = [owner |-> "program", member_count |-> member_count,
                            memeber_keys |-> InitialKeys, threshold |-> threshold,
                            total_proposals |-> 0]

\* ---------------------------------------------------------------- add_member
\* Mutant: the capacity test is off by one.
AtCapacity_late(m) == m.member_count > MAX_MEMBERS

AtCapacity(m) == m.member_count >= MAX_MEMBERS

\* Mutant: the duplicate scan stops one slot before the last member.
IsDuplicate_short(m, new_member) ==
    IndexOf(m.memeber_keys, m.member_count - 1, new_member) # -1

\* The scan of the first member_count slots finds the new member.
IsDuplicate(m, new_member) ==
    IndexOf(m.memeber_keys, m.member_count, new_member) # -1

\* What add_member returns and writes to the Multisig account.
add_member_registry(new_member) ==
    IF ~MultisigLoads
    THEN /\ ret' = Returned("addMember", "AccountLoad")
         /\ UNCHANGED multisig
    ELSE IF AtCapacity(multisig)
    THEN /\ ret' = Returned("addMember", "CapacityExceeded")
         /\ UNCHANGED multisig
    ELSE IF IsDuplicate(multisig, new_member)
    THEN /\ ret' = Returned("addMember", "DuplicateMember")
         /\ UNCHANGED multisig
    ELSE /\ ret' = Returned("addMember", "Ok")
         /\ multisig' =
              [multisig EXCEPT
                 !.memeber_keys[multisig.member_count] = new_member,
                 !.member_count = @ + 1]

\* Mutant: add_member also appends the new member to the proposal's snapshot.
add_member_snapshot(new_member) ==
    /\ add_member_registry(new_member)
    /\ UNCHANGED <<vote_state, now, snapCount>>
    /\ proposal' =
         IF ret'.result = "Ok"
         THEN [proposal EXCEPT !.active_members[multisig.member_count] = new_member]
         ELSE proposal

add_member(new_member) ==
    /\ add_member_registry(new_member)
    /\ UNCHANGED <<proposal, vote_state, now, snapCount>>

\* ------------------------------------------------------------- remove_member
\* Mutant: the guard compares with < instead of <=.
RemoveBlocked_strict(m) == m.member_count < m.threshold

\* Mutant: the guard is missing.
RemoveBlocked_never(m) == FALSE

RemoveBlocked(m) == m.member_count <= m.threshold

\* Mutant: the last member is moved into the gap instead of shifting.
ShiftedOut_swap(keys, count, member_index) ==
    [i \in Slots |->
        IF i = count - 1 THEN DefaultPubkey
        ELSE IF i = member_index THEN keys[count - 1]
        ELSE keys[i]]

\* Mutant: the last slot is not cleared after the shift.
ShiftedOut_noclear(keys, count, member_index) ==
    [i \in Slots |->
        IF i >= member_index /\ i < count - 1 THEN keys[i + 1] ELSE keys[i]]

\* The keys after the shift loop and the clearing of the last slot.
ShiftedOut(keys, count, member_index) ==
    [i \in Slots |->
        IF i >= member_index /\ i < count - 1 THEN keys[i + 1]
        ELSE IF i = count - 1 THEN DefaultPubkey
        ELSE keys[i]]

remove_member(member_to_remove) ==
    /\ UNCHANGED <<proposal, vote_state, now, snapCount>>
    /\ IF ~MultisigLoads
       THEN /\ ret' = Returned("removeMember", "AccountLoad")
            /\ UNCHANGED multisig
       ELSE IF RemoveBlocked(multisig)
       THEN /\ ret' = Returned("removeMember", "ThresholdUnreachable")
            /\ UNCHANGED multisig
       ELSE LET member_index ==
                    IndexOf(multisig.memeber_keys, multisig.member_count,
                            member_to_remove)
            IN IF member_index = -1
               THEN /\ ret' = Returned("removeMember", "MemberNotFound")
                    /\ UNCHANGED multisig
               ELSE /\ ret' = Returned("removeMember", "Ok")
                    /\ multisig' =
                         [multisig EXCEPT
                            !.memeber_keys =
                                ShiftedOut(@, multisig.member_count, member_index),
                            !.member_count = @ - 1]

\* ------------------------------------------------------------- init_proposal
\* active_members as the copy loop leaves it: the first member_count keys.
SnapshotOf(m) ==
    [i \in Slots |-> IF i < m.member_count THEN m.memeber_keys[i]
                     ELSE DefaultPubkey]

\* Mutant: the counter is not incremented.
NextProposalCount_stuck(total_proposals) == total_proposals

\* total_proposals += 1
NextProposalCount(total_proposals) == total_proposals + 1

\* u64 + u64 as the build without overflow checks computes it.
WrappingAdd(a, b) == (a + b) % (MaxU64 + 1)

\* u64 + u64 leaves the u64 range: a build with overflow checks panics.
AddOverflows(a, b) == a + b > MaxU64

init_proposal(proposer, proposal_expiry_duration) ==
    /\ UNCHANGED <<vote_state, now>>
    /\ IF ~MultisigLoads
       THEN /\ ret' = Returned("initProposal", "AccountLoad")
            /\ UNCHANGED <<multisig, proposal, snapCount>>
       ELSE IF IndexOf(multisig.memeber_keys, multisig.member_count, proposer) = -1
       THEN /\ ret' = Returned("initProposal", "NotAMember")
            /\ UNCHANGED <<multisig, proposal, snapCount>>
       ELSE LET current_time == now
                expiry_time == WrappingAdd(current_time, proposal_expiry_duration)
            IN \/ /\ AddOverflows(current_time, proposal_expiry_duration)
                  /\ ret' = Returned("initProposal", "Panic")
                  /\ UNCHANGED <<multisig, proposal, snapCount>>
               \/ /\ ret' = Returned("initProposal", "Ok")
                  /\ multisig' =
                       [multisig EXCEPT !.total_proposals = NextProposalCount(@)]
                  /\ proposal' =
                       [created |-> TRUE,
                        proposal_id |-> multisig.total_proposals,
                        expiry |-> expiry_time,
                        result |-> "Active",
                        active_members |-> SnapshotOf(multisig),
                        votes |-> ZeroVotes,
                        created_time |-> current_time]
                  /\ snapCount' = multisig.member_count

\* -------------------------------------------------------------- process_vote
\* How the vote_account argument presents itself: no data, a VoteState that
\* loads, or data that VoteState::from_account_info rejects.
VoteAccounts == {"none", "ok", "bad"}

InvalidVoteType(vote_type) == vote_type > VOTE_ABSTAIN

\* Mutant: a vote at the expiry time itself counts as expired.
Expired_inclusive(current_time, expiry) == current_time >= expiry

Expired(current_time, expiry) == current_time > expiry

\* The index the vote is written at: the voter's place in the registry.
VoterIndex(m, p, voter_pubkey) ==
    IndexOf(m.memeber_keys, m.member_count, voter_pubkey)

\* The number of slots the tally loop scans and resolution compares against.
TallyCount(m, p) == m.member_count

CountVotes(votes, n, kind) == Cardinality({i \in Slots : i < n /\ votes[i] = kind})

\* Mutant: the test also fires when the remaining votes just reach the quorum.
QuorumUnreachable_inclusive(votes_against, n, threshold) ==
    votes_against >= n - threshold

\* votes_against > member_count - threshold
QuorumUnreachable(votes_against, n, threshold) == votes_against > n - threshold

\* Mutant: the unreachable-quorum test compares with >= instead of >.
Resolve_eager(votes, n, threshold) ==
    LET votes_for == CountVotes(votes, n, VOTE_FOR)
        votes_against == CountVotes(votes, n, VOTE_AGAINST)
        votes_abstain == CountVotes(votes, n, VOTE_ABSTAIN)
        total_votes == votes_for + votes_against + votes_abstain
    IN IF votes_for >= threshold THEN "Succeeded"
       ELSE IF votes_against >= n - threshold THEN "Failed"
       ELSE IF total_votes = n /\ votes_for < threshold THEN "Failed"
       ELSE "Active"

\* The status after the resolution tests, starting from Active.
Resolve(votes, n, threshold) ==
    LET votes_for == CountVotes(votes, n, VOTE_FOR)
        votes_against == CountVotes(votes, n, VOTE_AGAINST)
        votes_abstain == CountVotes(votes, n, VOTE_ABSTAIN)
        total_votes == votes_for + votes_against + votes_abstain
    IN IF votes_for >= threshold THEN "Succeeded"
       ELSE IF QuorumUnreachable(votes_against, n, threshold) THEN "Failed"
       ELSE IF total_votes = n /\ votes_for < threshold THEN "Failed"
       ELSE "Active"

process_vote(voter, vote_account, vote_type) ==
    /\ UNCHANGED <<multisig, now, snapCount>>
    /\ IF InvalidVoteType(vote_type)
       THEN /\ ret' = Returned("castVote", "InvalidVoteKind")
            /\ UNCHANGED <<proposal, vote_state>>
       ELSE IF ~MultisigLoads
       THEN /\ ret' = Returned("castVote", "AccountLoad")
            /\ UNCHANGED <<proposal, vote_state>>
       ELSE IF proposal.result # "Active"
       THEN /\ ret' = Returned("castVote", "ProposalNotActive")
            /\ UNCHANGED <<proposal, vote_state>>
       ELSE IF Expired(now, proposal.expiry)
       THEN /\ ret' = Returned("castVote", "ProposalExpired")
            /\ proposal' = [proposal EXCEPT !.result = "Failed"]
            /\ UNCHANGED vote_state
       ELSE LET voter_idx == VoterIndex(multisig, proposal, voter)
                voted == [proposal.votes EXCEPT ![voter_idx] = vote_type]
            IN IF voter_idx = -1
               THEN /\ ret' = Returned("castVote", "VoterNotInSnapshot")
                    /\ UNCHANGED <<proposal, vote_state>>
               ELSE IF vote_account = "bad"
               THEN /\ ret' = Returned("castVote", "VoteAccountLoad")
                    /\ proposal' = [proposal EXCEPT !.votes = voted]
                    /\ UNCHANGED vote_state
               ELSE /\ ret' = Returned("castVote", "Ok")
                    /\ vote_state' =
                         IF vote_account = "ok"
                         THEN [has_permission |-> TRUE,
                               vote_count |-> vote_state.vote_count + 1]
                         ELSE vote_state
                    /\ proposal' =
                         [proposal EXCEPT
                            !.votes = voted,
                            !.result =
                                Resolve(voted, TallyCount(multisig, proposal),
                                        multisig.threshold)]

\* --------------------------------------------------------------------- clock
Tick ==
    /\ now < MaxTime
    /\ now' = now + 1
    /\ ret' = Returned("tick", "Ok")
    /\ UNCHANGED <<multisig, proposal, vote_state, snapCount>>

\* -------------------------------------------------------------------- inputs
\* The member counts and thresholds offered to initialize_multisig: the small
\* ones, and the ones at and above the capacity.
InitParams ==
    ((0..MaxInit) \X (0..(MaxInit + 1)))
        \cup ({MAX_MEMBERS, MAX_MEMBERS + 1} \X {0, MAX_MEMBERS, MAX_MEMBERS + 1})

Initialize ==
    \E pre \in InitPre, mt \in InitParams :
        /\ (pre # "ok") => (mt = <<0, 0>>)
        /\ initialize_multisig(pre, mt[1], mt[2])

AddMember == \E k \in Keys : add_member(k)

RemoveMember == \E k \in Keys : remove_member(k)

\* The durations offered to init_proposal: the small ones and u64::MAX.
Durations == (0..MaxDuration) \cup {MaxU64}

InitProposal ==
    \E k \in Keys, d \in Durations :
        /\ init_proposal(k, d)

CastVote ==
    \E k \in Keys, va \in VoteAccounts, vt \in VoteTypes :
        /\ proposal.created
        /\ process_vote(k, va, vt)

Instruction ==
    \/ Initialize
    \/ AddMember
    \/ RemoveMember
    \/ InitProposal
    \/ CastVote
    \/ Tick

Next ==
    /\ steps < MaxSteps
    /\ steps' = steps + 1
    /\ UNCHANGED <<instruction, latest>>
    /\ Instruction

Spec == Init /\ [][Next]_vars

\* ------------------------------------------------------- the registry alone
\* initialize_multisig with every member count and threshold up to one above
\* the capacity.
InitializeAny ==
    \E pre \in InitPre, mc \in 0..(MAX_MEMBERS + 1), th \in 0..(MAX_MEMBERS + 1) :
        /\ (pre # "ok") => (mc = 0 /\ th = 0)
        /\ initialize_multisig(pre, mc, th)

RegistryNext ==
    /\ UNCHANGED <<steps, instruction, latest>>
    /\ \/ InitializeAny
       \/ AddMember
       \/ RemoveMember

\* Every sequence, of any length, of the three registry instructions.
SpecRegistry == Init /\ [][RegistryNext]_vars

\* ------------------------------------------- resolution on drawn proposals
\* The registries of SpecResolve hold MaxN members at most.
MaxN == 4

\* A registry of n distinct members 1..n with threshold t and an Active
\* proposal on it whose first n vote slots are v.  Any vote vector can stand
\* beside an Active status: a process_vote that fails on its vote account has
\* written its vote without running the resolution tests.
InitResolve ==
    \E n \in 1..MaxN :
    \E t \in 1..n :
    \E v \in [0..(n - 1) -> VOTE_NOT_VOTED..VOTE_ABSTAIN] :
        LET members == [i \in Slots |-> IF i < n THEN i + 1 ELSE DefaultPubkey]
        IN /\ multisig = [owner |-> "program", member_count |-> n,
                          memeber_keys |-> members, threshold |-> t,
                          total_proposals |-> 1]
           /\ proposal = [created |-> TRUE, proposal_id |-> 0, expiry |-> 0,
                          result |-> "Active", active_members |-> members,
                          votes |-> [i \in Slots |->
                                        IF i < n THEN v[i] ELSE VOTE_NOT_VOTED],
                          created_time |-> 0]
           /\ vote_state = [has_permission |-> FALSE, vote_count |-> 0]
           /\ now = 0
           /\ ret = Returned("none", "Ok")
           /\ snapCount = n
           /\ steps = 0
           /\ instruction = NoInstruction
           /\ latest = NoLatest

ResolveVote ==
    \E k \in 1..MaxN, vt \in VOTE_NOT_VOTED..VOTE_ABSTAIN :
        /\ steps = 0
        /\ steps' = 1
        /\ UNCHANGED <<instruction, latest>>
        /\ process_vote(k, "none", vt)

SpecResolve == InitResolve /\ [][ResolveVote]_vars

\* ------------------------------------------ a ballot under registry changes
\* A registry of n members with threshold t and the proposal one of them has
\* just created on it.
InitBallot ==
    \E n \in 1..MaxBallot :
    \E t \in 1..n :
        LET members == [i \in Slots |-> IF i < n THEN i + 1 ELSE DefaultPubkey]
        IN /\ multisig = [owner |-> "program", member_count |-> n,
                          memeber_keys |-> members, threshold |-> t,
                          total_proposals |-> 1]
           /\ proposal = [created |-> TRUE, proposal_id |-> 0,
                          expiry |-> MaxDuration, result |-> "Active",
                          active_members |-> members, votes |-> ZeroVotes,
                          created_time |-> 0]
           /\ vote_state = [has_permission |-> FALSE, vote_count |-> 0]
           /\ now = 0
           /\ ret = Returned("initProposal", "Ok")
           /\ snapCount = n
           /\ steps = 0
           /\ instruction = NoInstruction
           /\ latest = NoLatest

BallotAdd ==
    /\ \E k \in BallotKeys : add_member(k)
    /\ UNCHANGED latest

BallotRemove ==
    /\ \E k \in BallotKeys : remove_member(k)
    /\ UNCHANGED latest

\* A vote for or against; an accepted vote is the voter's latest.
BallotCast ==
    \E k \in BallotKeys, vt \in {VOTE_FOR, VOTE_AGAINST} :
        /\ process_vote(k, "none", vt)
        /\ latest' = IF ret'.result = "Ok" THEN [latest EXCEPT ![k] = vt]
                     ELSE latest

BallotNext ==
    /\ UNCHANGED <<steps, instruction>>
    /\ \/ BallotAdd
       \/ BallotRemove
       \/ BallotCast

\* Every interleaving of addMember, removeMember and castVote after the
\* proposal's creation.
SpecBallot == InitBallot /\ [][BallotNext]_vars

\* ------------------------------------------------------- process_instruction
\* Instruction data is a sequence of bytes.  Identities are the arrays of 32
\* equal bytes (Pubkey::new_from_array([k; 32])), written here by that byte;
\* the numbers sent are below 256, so that to_le_bytes gives the number
\* followed by seven zero bytes.
Zeros(n) == [i \in 1..n |-> 0]

U64Le(v) == <<v>> \o Zeros(7)

PubkeyBytes(k) == [i \in 1..32 |-> k]

\* u64::from_le_bytes of eight bytes; any number with a non-zero byte above
\* the lowest is at least 256, which is all the handlers' comparisons need.
U64FromLe(bytes) ==
    IF \A i \in 2..8 : bytes[i] = 0 THEN bytes[1] ELSE 256

\* Pubkey::from of 32 bytes; 255 is an identity outside the model's.
PubkeyFrom(bytes) ==
    IF \A i \in 1..32 : bytes[i] = bytes[1] THEN bytes[1] ELSE 255

\* The arm of the match that a discriminator selects.
OperationOf(discriminator) ==
    CASE discriminator = 0 -> "initialize"
      [] discriminator = 1 -> "addMember"
      [] discriminator = 2 -> "removeMember"
      [] discriminator = 3 -> "initProposal"
      [] discriminator = 4 -> "castVote"
      [] OTHER -> "none"

\* The dispatcher returns or panics before it calls a handler.
DispatchEnds(kind) ==
    /\ ret' = Returned("dispatch", kind)
    /\ UNCHANGED <<multisig, proposal, vote_state, now, snapCount>>

\* Mutant: the wildcard arm returns Ok.
UnknownDiscriminator_ok == DispatchEnds("Ok")

\* The wildcard arm of the match.
UnknownDiscriminator == DispatchEnds("UnsupportedOperation")

\* The first of initialize_multisig's opening checks that fails.
InitPreOf(ix, data) ==
    IF ix.naccounts < 3 THEN "fewAccounts"
    ELSE IF Len(data) < 10 THEN "shortData"
    ELSE ix.pdas

process_instruction(ix) ==
    IF ix.data = <<>>
    THEN DispatchEnds("EmptyInstruction")
    ELSE LET discriminator == Head(ix.data)
             data == Tail(ix.data)
             op == OperationOf(discriminator)
         IN IF op = "initialize"
            THEN initialize_multisig(
                    InitPreOf(ix, data),
                    IF Len(data) >= 10 THEN U64FromLe(SubSeq(data, 2, 9)) ELSE 0,
                    IF Len(data) >= 10 THEN data[10] ELSE 0)
            ELSE IF op \in {"addMember", "removeMember"}
            THEN IF Len(data) < 32
                 THEN DispatchEnds("MalformedPayload")
                 ELSE IF ix.naccounts < 1
                 THEN DispatchEnds("Panic")
                 ELSE IF op = "addMember"
                 THEN add_member(PubkeyFrom(SubSeq(data, 1, 32)))
                 ELSE remove_member(PubkeyFrom(SubSeq(data, 1, 32)))
            ELSE IF op = "initProposal"
            \* &data[96..] panics when the payload has fewer than 96 bytes.
            THEN IF Len(data) < 96
                 THEN DispatchEnds("Panic")
                 ELSE IF Len(data) - 96 < 8
                 THEN DispatchEnds("MalformedPayload")
                 ELSE IF ix.naccounts < 3
                 THEN DispatchEnds("Panic")
                 ELSE init_proposal(ix.signer, U64FromLe(SubSeq(data, 97, 104)))
            ELSE IF op = "castVote"
            \* data[128] panics when the payload has fewer than 129 bytes.
            THEN IF Len(data) <= 128
                 THEN DispatchEnds("Panic")
                 ELSE IF ix.naccounts < 4
                 THEN DispatchEnds("Panic")
                 ELSE process_vote(ix.signer, ix.vote_account, data[129])
            ELSE UnknownDiscriminator

\* ------------------------------------------- instructions on drawn accounts
\* The registries of SpecDispatch hold the identities 1..MaxDispatchKey.
MaxDispatchKey == 3

DispatchKeys == 0..MaxDispatchKey

\* The payloads offered (the bytes after the discriminator): each operation's
\* arguments laid out right after the discriminator, as the tests send them,
\* and at the offsets the code reads them from, cut short and whole.
InitPayloads ==
    LET params == {<<0, 0>>, <<1, 1>>, <<3, 2>>, <<MAX_MEMBERS + 1, 1>>}
    IN {U64Le(mt[1]) \o <<mt[2]>> : mt \in params}
         \cup {<<0>> \o U64Le(mt[1]) \o <<mt[2]>> : mt \in params}

KeyPayloads ==
    {PubkeyBytes(k) : k \in DispatchKeys}
        \cup {SubSeq(PubkeyBytes(k), 1, 31) : k \in DispatchKeys}

DurationPayloads ==
    {U64Le(d) : d \in Durations}
        \cup {Zeros(96) \o U64Le(d) : d \in Durations}
        \cup {Zeros(103)}

VotePayloads ==
    {<<vt>> : vt \in VoteTypes}
        \cup {Zeros(128) \o <<vt>> : vt \in VoteTypes}
        \cup {Zeros(128)}

Payloads ==
    {<<>>} \cup InitPayloads \cup KeyPayloads \cup DurationPayloads \cup VotePayloads

Discriminators == (0..5) \cup {255}

AccountCounts == {0, 1, 3, 4}

\* Every discriminator with every payload; the accounts that an operation
\* does not read are not varied.
Instructions ==
    {NoInstruction}
    \cup
    {ix \in [data : {<<disc>> \o p : disc \in Discriminators, p \in Payloads},
             naccounts : AccountCounts,
             signer : DispatchKeys,
             vote_account : VoteAccounts,
             pdas : InitPre \ {"fewAccounts", "shortData"}] :
        LET op == OperationOf(Head(ix.data))
        IN /\ (op \notin {"initProposal", "castVote"}) => ix.signer = DefaultPubkey
           /\ (op # "castVote") => ix.vote_account = "none"
           /\ (op # "initialize") => ix.pdas = "ok"}

\* The account states the instructions arrive on: no registry yet, or a
\* registry of a (0 or 1) empty members left by initialize followed by the
\* added members 1..n, with a threshold it allows; and a proposal record that
\* is still zero or holds the Active proposal 0 created on that registry.
InitDispatch ==
    /\ instruction \in Instructions
    /\ latest = NoLatest
    /\ vote_state = [has_permission |-> FALSE, vote_count |-> 0]
    /\ now = 0
    /\ ret = Returned("none", "Ok")
    /\ steps = 0
    /\ \E a \in 0..1, n \in 0..MaxDispatchKey, t \in 0..(MaxDispatchKey + 1),
          created \in BOOLEAN :
          LET members == [i \in Slots |-> IF i < a THEN DefaultPubkey
                                          ELSE IF i < a + n THEN i - a + 1
                                          ELSE DefaultPubkey]
              initialized == a + n >= 1
          IN /\ IF initialized THEN 1 <= t /\ t <= a + n ELSE t = 0
             /\ created => initialized
             /\ multisig =
                  IF initialized
                  THEN [owner |-> "program", member_count |-> a + n,
                        memeber_keys |-> members, threshold |-> t,
                        total_proposals |-> IF created THEN 1 ELSE 0]
                  ELSE [owner |-> "system"] @@ ZeroMultisigData
             /\ proposal =
                  [created |-> created, proposal_id |-> 0,
                   expiry |-> IF created THEN MaxDuration ELSE 0,
                   result |-> "Active",
                   active_members |-> IF created THEN members ELSE ZeroKeys,
                   votes |-> ZeroVotes, created_time |-> 0]
             /\ snapCount = IF created THEN a + n ELSE 0
    \* process_vote is handed a proposal record that has been created.
    /\ (/\ instruction.data # <<>>
        /\ OperationOf(Head(instruction.data)) = "castVote"
        /\ Len(instruction.data) > 129
        /\ instruction.naccounts >= 4)
          => proposal.created

Dispatch ==
    /\ steps = 0
    /\ steps' = 1
    /\ UNCHANGED <<instruction, latest>>
    /\ process_instruction(instruction)

\* One instruction on each of the drawn account states.
SpecDispatch == InitDispatch /\ [][Dispatch]_vars

\* ============================================================ claims

\* The voter's place in the proposal's snapshot, or -1.
SnapIndex(k) == IndexOf(proposal.active_members, snapCount, k)

CastKinds == VOTE_FOR..VOTE_ABSTAIN

\* A process_vote whose vote kind is For, Against or Abstain and whose vote
\* account does not fail to load, on a created proposal.
CastStep(k, va, vt) ==
    /\ proposal.created
    /\ MultisigLoads
    /\ process_vote(k, va, vt)

\* C1: in every reachable state an initialized registry (an account of the
\* program that holds data, which is what initialize_multisig reports as
\* already initialized) satisfies 1 <= threshold <= member_count <= 10.
C1_RegistryBounds ==
    multisig.owner = "program" =>
        /\ 1 <= multisig.threshold
        /\ multisig.threshold <= multisig.member_count
        /\ multisig.member_count <= MAX_MEMBERS

\* C2: once a proposal record's status is Succeeded or Failed, no operation
\* changes it.
C2_StatusMonotonic ==
    [][(proposal.created /\ proposal.result \in {"Succeeded", "Failed"})
          => proposal'.result = proposal.result]_vars

\* C3: castVote decides eligibility against the proposal's snapshot: a voter
\* in the snapshot votes successfully into their snapshot slot, whatever the
\* registry holds now, and a voter outside it is rejected with
\* VoterNotInSnapshot.
C3_SnapshotEligibility ==
    [][\A k \in Keys, va \in {"none", "ok"}, vt \in CastKinds :
          (CastStep(k, va, vt) /\ proposal.result = "Active"
             /\ now <= proposal.expiry /\ multisig.threshold >= 1)
          => IF SnapIndex(k) # -1
             THEN /\ ret'.result = "Ok"
                  /\ proposal'.votes[SnapIndex(k)] = vt
             ELSE ret'.result = "VoterNotInSnapshot"]_vars

\* The status the resolution rules of the claim give for n members,
\* threshold t and the first n vote slots.
RECURSIVE RefCount(_, _, _)
RefCount(votes, n, kind) ==
    IF n = 0 THEN 0
    ELSE RefCount(votes, n - 1, kind) + (IF votes[n - 1] = kind THEN 1 ELSE 0)

RefStatus(votes, n, t) ==
    LET forCount == RefCount(votes, n, VOTE_FOR)
        againstCount == RefCount(votes, n, VOTE_AGAINST)
        abstainCount == RefCount(votes, n, VOTE_ABSTAIN)
    IN CASE forCount >= t -> "Succeeded"
         [] forCount < t /\ againstCount > n - t -> "Failed"
         [] forCount < t /\ againstCount <= n - t
               /\ forCount + againstCount + abstainCount = n -> "Failed"
         [] OTHER -> "Active"

VotesOf(seq) == [i \in Slots |-> IF i < Len(seq) THEN seq[i + 1] ELSE VOTE_NOT_VOTED]

\* C4: after every successful castVote with 1 <= threshold <= member_count
\* <= 10 the status is the one the resolution rules give for the votes, and
\* the four examples for threshold 2 of 3 resolve as stated.
C4_Resolution ==
    /\ (/\ ret = Returned("castVote", "Ok")
        /\ 1 <= multisig.threshold
        /\ multisig.threshold <= multisig.member_count
        /\ multisig.member_count <= MAX_MEMBERS)
       => proposal.result =
            RefStatus(proposal.votes, multisig.member_count, multisig.threshold)
    /\ Resolve(VotesOf(<<VOTE_FOR, VOTE_FOR, VOTE_NOT_VOTED>>), 3, 2) = "Succeeded"
    /\ Resolve(VotesOf(<<VOTE_AGAINST, VOTE_AGAINST, VOTE_NOT_VOTED>>), 3, 2) = "Failed"
    /\ Resolve(VotesOf(<<VOTE_FOR, VOTE_AGAINST, VOTE_ABSTAIN>>), 3, 2) = "Failed"
    /\ Resolve(VotesOf(<<VOTE_FOR, VOTE_NOT_VOTED, VOTE_NOT_VOTED>>), 3, 2) = "Active"

\* Everyone has voted on a 2-of-3 proposal, one For, and it has failed.
C4_Witness ==
    /\ ret = Returned("castVote", "Ok")
    /\ multisig.member_count = 3
    /\ multisig.threshold = 2
    /\ CountVotes(proposal.votes, 3, VOTE_FOR) = 1
    /\ CountVotes(proposal.votes, 3, VOTE_AGAINST) = 1
    /\ CountVotes(proposal.votes, 3, VOTE_ABSTAIN) = 1
    /\ proposal.result = "Failed"

\* C5: a voter of the snapshot who has already voted and votes again on the
\* Active proposal succeeds, and the call writes the new choice over the
\* voter's slot and touches no other slot, so that each voter is counted once,
\* by the latest choice.
C5_LastVoteWins ==
    [][\A k \in Keys, va \in {"none", "ok"}, vt \in CastKinds :
          (/\ CastStep(k, va, vt)
           /\ proposal.result = "Active"
           /\ now <= proposal.expiry
           /\ multisig.threshold >= 1
           /\ SnapIndex(k) # -1
           /\ proposal.votes[SnapIndex(k)] # VOTE_NOT_VOTED)
          => /\ ret'.result = "Ok"
             /\ proposal'.votes = [proposal.votes EXCEPT ![SnapIndex(k)] = vt]]_vars

\* C6: a castVote on an Active proposal with now > expiry fails with
\* ProposalExpired, leaves the votes alone and leaves the status Failed in the
\* record; with now <= expiry it does not fail with ProposalExpired; and a
\* castVote on a proposal that is not Active is rejected and changes nothing.
C6_ExpiryRule ==
    [][\/ ret'.op # "castVote"
       \/ /\ (proposal.result = "Active" /\ now > proposal.expiry)
                => /\ ret'.result = "ProposalExpired"
                   /\ proposal'.votes = proposal.votes
                   /\ proposal'.result = "Failed"
          /\ (proposal.result = "Active" /\ now <= proposal.expiry)
                => ret'.result # "ProposalExpired"
          /\ (proposal.result # "Active")
                => /\ ret'.result = "ProposalNotActive"
                   /\ proposal' = proposal
       \/ \A k \in Keys, va \in VoteAccounts, vt \in CastKinds :
              ~CastStep(k, va, vt)]_vars

\* A vote after the expiry has failed and the record says Failed.
C6_Witness ==
    /\ ret = Returned("castVote", "ProposalExpired")
    /\ proposal.result = "Failed"
    /\ now > proposal.expiry
    /\ proposal.votes = ZeroVotes

\* C7: no addMember and no removeMember changes a created proposal's
\* active_members.
C7_SnapshotFrozen ==
    [][\/ ret'.op \notin {"addMember", "removeMember"}
       \/ proposal'.active_members = proposal.active_members
       \/ \A k \in Keys :
              ~(proposal.created /\ (add_member(k) \/ remove_member(k)))]_vars

\* The registry has changed under a created proposal.
C7_Witness ==
    /\ proposal.created
    /\ ret \in {Returned("addMember", "Ok"), Returned("removeMember", "Ok")}
    /\ proposal.active_members # SnapshotOf(multisig)

\* C8: the status after a successful castVote by a snapshot member is the
\* one the resolution tests give over the snapshot's member count, whatever
\* the registry's member_count has become.
C8_SnapshotTally ==
    [][\A k \in Keys, va \in {"none", "ok"}, vt \in CastKinds :
          (/\ CastStep(k, va, vt)
           /\ multisig.threshold >= 1
           /\ SnapIndex(k) # -1
           /\ ret'.result = "Ok")
          => proposal'.result =
                Resolve(proposal'.votes, snapCount, multisig.threshold)]_vars

\* C9: removeMember never succeeds when member_count == threshold: whatever
\* the identity, the call fails with ThresholdUnreachable and the registry is
\* unchanged.
C9_RemoveAtThresholdFails ==
    [][\A k \in Keys :
          (/\ MultisigLoads
           /\ multisig.member_count = multisig.threshold
           /\ remove_member(k))
          => (ret'.result = "ThresholdUnreachable" /\ multisig' = multisig)]_vars

\* A removal was refused on a registry with a non-empty member.
C9_Witness ==
    /\ ret = Returned("removeMember", "ThresholdUnreachable")
    /\ multisig.member_count = multisig.threshold
    /\ \E i \in Slots : multisig.memeber_keys[i] # DefaultPubkey

\* C10 as stated: after a successful removeMember member_count > threshold.
C10_AboveThresholdAfterRemove ==
    ret = Returned("removeMember", "Ok")
        => multisig.member_count > multisig.threshold

\* C10 amended: a successful removeMember starts from member_count >
\* threshold, takes exactly one member out and leaves member_count >=
\* threshold.
C10_AtLeastThresholdAfterRemove ==
    [][\A k \in Keys :
          (ret' = Returned("removeMember", "Ok") /\ remove_member(k))
          => /\ multisig.member_count > multisig.threshold
             /\ multisig'.member_count = multisig.member_count - 1
             /\ multisig'.member_count >= multisig'.threshold]_vars

\* A removal has brought member_count down to the threshold.
C10_Witness ==
    /\ ret = Returned("removeMember", "Ok")
    /\ multisig.member_count = multisig.threshold
    /\ multisig.threshold >= 1

\* k is among the first member_count slots of registry m.
Present(m, k) == \E i \in Slots : i < m.member_count /\ m.memeber_keys[i] = k

\* C11: addMember of an identity already among the first member_count slots
\* fails with DuplicateMember and leaves the registry unchanged, in every
\* registry state, full capacity included.
C11_DuplicateAlwaysRejected ==
    [][\A k \in Keys \ {DefaultPubkey} :
          (/\ MultisigLoads
           /\ Present(multisig, k)
           /\ add_member(k))
          => (ret'.result = "DuplicateMember" /\ multisig' = multisig)]_vars

ValidInitParams(mc, th) == 1 <= mc /\ mc <= MAX_MEMBERS /\ 1 <= th /\ th <= mc

\* C12: initialize on uninitialized storage succeeds exactly when
\* 1 <= memberCount <= 10 and 1 <= threshold <= memberCount, and then
\* total_proposals is 0 and member_count and threshold are the given values;
\* otherwise it fails with InvalidParameter and no initialized registry
\* exists afterwards.
C12_InitializeExactlyValid ==
    [][\A mc \in 0..(MAX_MEMBERS + 1), th \in 0..(MAX_MEMBERS + 1) :
          (/\ multisig.owner = "system"
           /\ ret'.op = "initialize"
           /\ initialize_multisig("ok", mc, th))
          => IF ValidInitParams(mc, th)
             THEN /\ ret'.result = "Ok"
                  /\ multisig'.owner = "program"
                  /\ multisig'.total_proposals = 0
                  /\ multisig'.member_count = mc
                  /\ multisig'.threshold = th
             ELSE /\ ret'.result = "InvalidParameter"
                  /\ multisig'.owner # "program"]_vars

\* C13: a castVote whose vote kind is NotVoted (0) or above Abstain fails
\* with InvalidVoteKind and leaves the proposal's votes and status unchanged,
\* so that a recorded vote is never turned back into NOT_VOTED.
C13_OnlyCastKindsAccepted ==
    [][\A k \in Keys \ {DefaultPubkey}, va \in VoteAccounts,
          vt \in VoteTypes \ CastKinds :
          (/\ ret'.op = "castVote"
           /\ SnapIndex(k) # -1
           /\ proposal.votes[SnapIndex(k)] # VOTE_NOT_VOTED
           /\ proposal.result = "Active"
           /\ now <= proposal.expiry
           /\ multisig.threshold >= 1
           /\ CastStep(k, va, vt))
          => /\ ret'.result = "InvalidVoteKind"
             /\ proposal'.votes = proposal.votes
             /\ proposal'.result = proposal.result]_vars

\* C14: addMember succeeds if and only if member_count < 10 and the identity
\* is absent from the first member_count slots; on success the identity is
\* stored at index old member_count, member_count grows by exactly 1 and
\* every other slot, threshold and total_proposals are unchanged; when
\* member_count == 10 it fails with CapacityExceeded and changes nothing.
C14_AddMemberContract ==
    [][\A k \in Keys :
          (/\ ret'.op = "addMember"
           /\ MultisigLoads
           /\ add_member(k))
          => /\ (ret'.result = "Ok")
                   <=> (multisig.member_count < 10 /\ ~Present(multisig, k))
             /\ (ret'.result = "Ok")
                   => /\ multisig'.memeber_keys[multisig.member_count] = k
                      /\ multisig'.member_count = multisig.member_count + 1
                      /\ \A i \in Slots \ {multisig.member_count} :
                            multisig'.memeber_keys[i] = multisig.memeber_keys[i]
                      /\ multisig'.threshold = multisig.threshold
                      /\ multisig'.total_proposals = multisig.total_proposals
                      /\ multisig'.owner = multisig.owner
             /\ (multisig.member_count = 10)
                   => /\ ret'.result = "CapacityExceeded"
                      /\ multisig' = multisig]_vars

\* An addMember has filled the last slot of the registry.
C14_Witness ==
    /\ ret = Returned("addMember", "Ok")
    /\ multisig.member_count = MAX_MEMBERS
    /\ multisig.memeber_keys[MAX_MEMBERS - 1] # DefaultPubkey

\* The first member_count entries of the registry, as a sequence.
MembersSeq(m) == [i \in 1..m.member_count |-> m.memeber_keys[i - 1]]

\* Sequence s without its element at position p.
Without(s, p) == SubSeq(s, 1, p - 1) \o SubSeq(s, p + 1, Len(s))

\* C15: a successful removeMember(identity) with member_count > threshold
\* and the identity present yields the former member sequence with that
\* identity deleted (earlier members keep their index, later ones move left
\* by one in order), empties the slot at old member_count - 1, decreases
\* member_count by exactly 1 and leaves threshold unchanged; an absent
\* identity fails with MemberNotFound and changes nothing.
C15_RemoveMemberContract ==
    [][\A k \in Keys :
          (/\ ret'.op = "removeMember"
           /\ MultisigLoads
           /\ multisig.member_count > multisig.threshold
           /\ remove_member(k))
          => IF Present(multisig, k)
             THEN /\ ret'.result = "Ok"
                  /\ \E p \in 1..multisig.member_count :
                        /\ MembersSeq(multisig)[p] = k
                        /\ \A q \in 1..(p - 1) : MembersSeq(multisig)[q] # k
                        /\ MembersSeq(multisig') = Without(MembersSeq(multisig), p)
                  /\ multisig'.memeber_keys[multisig.member_count - 1] = DefaultPubkey
                  /\ \A i \in Slots : i >= multisig.member_count =>
                        multisig'.memeber_keys[i] = multisig.memeber_keys[i]
                  /\ multisig'.member_count = multisig.member_count - 1
                  /\ multisig'.threshold = multisig.threshold
                  /\ multisig'.total_proposals = multisig.total_proposals
             ELSE /\ ret'.result = "MemberNotFound"
                  /\ multisig' = multisig]_vars

\* A removal from the front has moved a non-empty member to the left.
C15_Witness ==
    /\ ret = Returned("removeMember", "Ok")
    /\ multisig.member_count >= 2
    /\ multisig.memeber_keys[multisig.member_count - 1] # DefaultPubkey
    /\ multisig.memeber_keys[0] = DefaultPubkey

\* C16: a successful initProposal by a registry member produces a proposal
\* whose active_members are the registry's first member_count entries in
\* order with every other slot empty, whose ten votes are all NOT_VOTED,
\* whose status is Active, whose created_time is now and whose expiry is
\* now + requested duration.
C16_ProposalCreated ==
    [][\A k \in Keys, d \in Durations :
          (/\ ret' = Returned("initProposal", "Ok")
           /\ MultisigLoads
           /\ init_proposal(k, d))
          => /\ Present(multisig, k)
             /\ \A i \in Slots :
                   proposal'.active_members[i] =
                      IF i < multisig.member_count THEN multisig.memeber_keys[i]
                      ELSE DefaultPubkey
             /\ \A i \in Slots : proposal'.votes[i] = VOTE_NOT_VOTED
             /\ proposal'.result = "Active"
             /\ proposal'.created_time = now
             /\ proposal'.expiry = now + d]_vars

\* C17: proposal identifiers are dense from 0: total_proposals starts at 0,
\* every successful initProposal gives the proposal the current
\* total_proposals as its id and increments total_proposals by one, and no
\* other step (a failed call, addMember, removeMember, castVote) changes
\* total_proposals; so the k-th successful initProposal gets id k - 1 and
\* total_proposals is the number of successful initProposal calls.
C17_DenseProposalIds ==
    /\ multisig.total_proposals = 0
    /\ [][IF ret' = Returned("initProposal", "Ok")
             /\ \E k \in Keys, d \in Durations : init_proposal(k, d)
          THEN /\ proposal'.proposal_id = multisig.total_proposals
               /\ multisig'.total_proposals = multisig.total_proposals + 1
          ELSE multisig'.total_proposals = multisig.total_proposals]_vars

\* The second successful initProposal has been given id 1.
C17_Witness ==
    /\ ret = Returned("initProposal", "Ok")
    /\ proposal.proposal_id = 1
    /\ multisig.total_proposals = 2

\* C18: initProposal by an identity that is not among the registry's first
\* member_count slots fails with NotAMember and leaves total_proposals, every
\* other registry field and the proposal record unchanged.
C18_NonMemberCannotPropose ==
    [][\/ ret'.op # "initProposal"
       \/ /\ ret'.result = "NotAMember"
          /\ multisig' = multisig
          /\ proposal' = proposal
       \/ \A k \in Keys, d \in Durations :
              ~(/\ MultisigLoads
                /\ ~Present(multisig, k)
                /\ init_proposal(k, d))]_vars

\* A non-member's initProposal was refused on a registry that has already
\* created a proposal.
C18_Witness ==
    /\ ret = Returned("initProposal", "NotAMember")
    /\ proposal.created
    /\ multisig.total_proposals >= 1
    /\ multisig.member_count >= 1

\* C19: a castVote that fails for a reason other than expiry (proposal not
\* Active, voter not eligible, invalid vote kind, or a vote record that
\* cannot be loaded) leaves every votes slot and the status unchanged.
C19_FailedVoteWritesNothing ==
    [][\/ ret'.op # "castVote"
       \/ ret'.result \in {"Ok", "ProposalExpired"}
       \/ /\ proposal'.votes = proposal.votes
          /\ proposal'.result = proposal.result
       \/ \A k \in Keys, va \in VoteAccounts, vt \in VoteTypes :
              ~(multisig.threshold >= 1 /\ CastStep(k, va, vt))]_vars

\* The proposal record after a castVote of kind vt by k that is given no
\* vote record.
VotedWithoutRecord(k, vt) ==
    IF InvalidVoteType(vt) \/ ~MultisigLoads \/ proposal.result # "Active"
    THEN proposal
    ELSE IF now > proposal.expiry
    THEN [proposal EXCEPT !.result = "Failed"]
    ELSE LET i == VoterIndex(multisig, proposal, k)
             voted == [proposal.votes EXCEPT ![i] = vt]
         IN IF i = -1 THEN proposal
            ELSE [proposal EXCEPT
                    !.votes = voted,
                    !.result = Resolve(voted, TallyCount(multisig, proposal),
                                       multisig.threshold)]

\* C20: the vote record does not influence voting: the votes and status
\* after castVote are the same whether the record is supplied, not supplied
\* or supplied but unloadable, in none of these cases does the call fail
\* because of the record, and a supplied, loadable record has its permission
\* flag set and its counter incremented by 1 on a successful castVote.
C20_VoteRecordIndependence ==
    [][\A k \in Keys, va \in VoteAccounts, vt \in CastKinds :
          (/\ ret'.op = "castVote"
           /\ multisig.threshold >= 1
           /\ CastStep(k, va, vt))
          => /\ ret'.result # "VoteAccountLoad"
             /\ proposal' = VotedWithoutRecord(k, vt)
             /\ (va = "ok" /\ ret'.result = "Ok")
                   => /\ vote_state'.has_permission
                      /\ vote_state'.vote_count = vote_state.vote_count + 1]_vars

FiveOperations ==
    {"initialize", "addMember", "removeMember", "initProposal", "castVote"}

\* The operation the instruction's first byte selects, "none" without one.
Selected == IF instruction.data = <<>> THEN "none"
            ELSE OperationOf(Head(instruction.data))

\* The bytes after the discriminator.
PayloadOf(ix) == IF ix.data = <<>> THEN <<>> ELSE Tail(ix.data)

\* Each operation has exactly one discriminator among the byte values.
OneSelectorEach ==
    \A op \in FiveOperations :
        Cardinality({sel \in 0..255 : OperationOf(sel) = op}) = 1

\* C21: each of the five operations is selected by exactly one selector
\* value, a handler runs only under its own selector, and an instruction with
\* any other selector, or with no bytes at all, fails with an error and
\* changes no registry or proposal state.
C21_SelectorsTotal ==
    /\ OneSelectorEach
    /\ [][/\ \A op \in FiveOperations : (ret'.op = op) => (Selected = op)
          /\ (instruction.data = <<>> \/ Head(instruction.data) \notin 0..4)
                => /\ ret'.result # "Ok"
                   /\ multisig' = multisig
                   /\ proposal' = proposal]_vars

\* An unknown selector in front of a payload that initialize would accept,
\* on storage with no registry, has been refused.
C21_Witness ==
    /\ ret = Returned("dispatch", "UnsupportedOperation")
    /\ Head(instruction.data) = 5
    /\ PayloadOf(instruction) = <<0>> \o U64Le(1) \o <<1>>
    /\ instruction.naccounts >= 3
    /\ multisig.owner = "system"

\* The payload lengths of the spec's instruction format.
RequiredLen(op) ==
    CASE op = "initialize" -> 9
      [] op \in {"addMember", "removeMember"} -> 32
      [] op = "initProposal" -> 8
      [] OTHER -> 1

\* C22: for each of the five operations an instruction whose payload is
\* shorter than the operation requires is rejected with MalformedPayload,
\* never by aborting the program, and changes no registry or proposal state.
C22_ShortPayloadRejected ==
    [][(/\ Selected \in FiveOperations
        /\ Len(PayloadOf(instruction)) < RequiredLen(Selected)
        /\ instruction.naccounts >= 4)
          => /\ ret'.result = "MalformedPayload"
             /\ multisig' = multisig
             /\ proposal' = proposal]_vars

\* C23: the payload starts right after the selector: a successful addMember
\* or removeMember acts on the identity in the first 32 payload bytes, a
\* successful initProposal uses the duration in the first 8 payload bytes,
\* and an instruction of exactly selector + 8 duration bytes by a member
\* creates a proposal with that duration, and one of exactly selector + 1
\* vote-kind byte by a member casts that vote.
C23_PayloadAfterSelector ==
    [][LET payload == PayloadOf(instruction)
           member == Present(multisig, instruction.signer)
       IN /\ (ret' = Returned("addMember", "Ok"))
                => multisig'.memeber_keys[multisig.member_count]
                      = PubkeyFrom(SubSeq(payload, 1, 32))
          /\ (ret' = Returned("initProposal", "Ok"))
                => proposal'.expiry = now + U64FromLe(SubSeq(payload, 1, 8))
          /\ (/\ Selected = "initProposal" /\ Len(payload) = 8
              /\ MultisigLoads /\ member /\ instruction.naccounts >= 4)
                => /\ ret' = Returned("initProposal", "Ok")
                   /\ proposal'.expiry = now + U64FromLe(payload)
          /\ (/\ Selected = "castVote" /\ Len(payload) = 1
              /\ payload[1] \in CastKinds
              /\ MultisigLoads /\ member /\ proposal.created
              /\ instruction.naccounts >= 4 /\ instruction.vote_account # "bad")
                => /\ ret' = Returned("castVote", "Ok")
                   /\ \E i \in Slots : proposal'.votes[i] = payload[1]]_vars

\* The member lists of the tests' registries.
MembersAre(m, seq) ==
    /\ m.owner = "program"
    /\ m.member_count = Len(seq)
    /\ \A i \in 1..Len(seq) : m.memeber_keys[i - 1] = seq[i]

\* C24: the instructions the tests submit are routed to the operation each
\* test names and succeed on the accounts the test sets up: first byte 1 with
\* member count 3 and threshold 2 initializes a registry, first byte 2 with an
\* identity adds it to the registry <<1, 2>> of threshold 2, first byte 3 with
\* an identity removes it from the registry <<1, 2, 3>> of threshold 2, and
\* first byte 4 with a duration creates a proposal on that registry.
C24_TestInstructionsRouted ==
    [][/\ (/\ instruction.data = <<1>> \o U64Le(3) \o <<2>>
           /\ instruction.naccounts = 3 /\ instruction.pdas = "ok"
           /\ multisig.owner = "system")
             => /\ ret' = Returned("initialize", "Ok")
                /\ multisig'.member_count = 3
                /\ multisig'.threshold = 2
       /\ (/\ instruction.data = <<2>> \o PubkeyBytes(3)
           /\ instruction.naccounts = 1
           /\ MembersAre(multisig, <<1, 2>>) /\ multisig.threshold = 2)
             => /\ ret' = Returned("addMember", "Ok")
                /\ MembersAre(multisig', <<1, 2, 3>>)
       /\ (/\ instruction.data = <<3>> \o PubkeyBytes(1)
           /\ instruction.naccounts = 1
           /\ MembersAre(multisig, <<1, 2, 3>>) /\ multisig.threshold = 2)
             => /\ ret' = Returned("removeMember", "Ok")
                /\ MembersAre(multisig', <<2, 3>>)
       /\ (/\ instruction.data = <<4>> \o U64Le(MaxDuration)
           /\ instruction.naccounts = 4 /\ instruction.signer = 1
           /\ MembersAre(multisig, <<1, 2, 3>>) /\ multisig.threshold = 2
           /\ ~proposal.created)
             => /\ ret' = Returned("initProposal", "Ok")
                /\ proposal'.created
                /\ proposal'.expiry = now + MaxDuration]_vars

\* C25: initialize on a registry that is already initialized fails with
\* AlreadyInitialized whatever member count and threshold it is given, and
\* every initialize on such a registry leaves members, member_count, threshold
\* and total_proposals as they were.
C25_InitializeOnceOnly ==
    [][(multisig.owner = "program")
          => /\ (ret'.op = "initialize")
                   => /\ ret'.result # "Ok"
                      /\ multisig' = multisig
             /\ \A mc \in 0..(MAX_MEMBERS + 1), th \in 0..(MAX_MEMBERS + 1) :
                   initialize_multisig("ok", mc, th)
                      => /\ ret' = Returned("initialize", "AlreadyInitialized")
                         /\ multisig' = multisig]_vars

\* A registry with a member on which initialize has been refused.
C25_Witness ==
    /\ ret = Returned("initialize", "AlreadyInitialized")
    /\ multisig.owner = "program"
    /\ multisig.threshold >= 1
    /\ \E i \in Slots : i < multisig.member_count
                          /\ multisig.memeber_keys[i] # DefaultPubkey

\* The number of snapshot members whose slot holds a For, Against or Abstain.
CastCount(p) ==
    Cardinality({i \in Slots : i < snapCount /\ p.votes[i] \in CastKinds})

\* C26: a proposal on which all members of its snapshot have cast a For,
\* Against or Abstain vote is resolved: after the successful castVote that
\* makes the number of cast votes equal the snapshot's member count the
\* status is Succeeded or Failed, never Active.
C26_AllVotedResolved ==
    [][(/\ ret' = Returned("castVote", "Ok")
        /\ multisig.threshold >= 1
        /\ proposal.result = "Active"
        /\ CastCount(proposal) < snapCount
        /\ CastCount(proposal') = snapCount)
          => proposal'.result \in {"Succeeded", "Failed"}]_vars

\* C27: in every reachable registry state no non-empty identity occurs twice
\* among the first member_count slots of the members array.
C27_NoDuplicateMembers ==
    \A i \in Slots, j \in Slots :
        (/\ i < j
         /\ j < multisig.member_count
         /\ multisig.memeber_keys[i] # DefaultPubkey)
          => multisig.memeber_keys[i] # multisig.memeber_keys[j]

\* A registry of several slots, one of them non-empty, on which adding that
\* member again has been refused by the duplicate scan.
C27_Witness ==
    /\ ret = Returned("addMember", "DuplicateMember")
    /\ multisig.member_count >= 2
    /\ \E i \in Slots : i < multisig.member_count
                          /\ multisig.memeber_keys[i] # DefaultPubkey

\* C28: in every reachable registry state every members slot at an index
\* >= member_count holds the empty sentinel identity.
C28_UnusedSlotsEmpty ==
    \A i \in Slots :
        i >= multisig.member_count => multisig.memeber_keys[i] = DefaultPubkey

\* A registry from which a member in front of a non-empty member has been
\* removed: the non-empty member has moved down and its old slot is unused.
C28_Witness ==
    /\ ret = Returned("removeMember", "Ok")
    /\ multisig.member_count >= 1
    /\ multisig.memeber_keys[multisig.member_count - 1] # DefaultPubkey

\* The identities whose latest accepted vote on the proposal is For.
ForVoters == {k \in BallotKeys : latest[k] = VOTE_FOR}

\* C29: under any interleaving of addMember, removeMember and castVote after
\* a proposal is created, the proposal is Succeeded only if at least threshold
\* distinct identities each have For as their latest vote on it.
C29_SucceededByDistinctVoters ==
    (proposal.result = "Succeeded")
        => Cardinality(ForVoters) >= multisig.threshold

\* Every slot of the members array holds the empty identity.
AllEmpty(m) == \A i \in Slots : m.memeber_keys[i] = DefaultPubkey

\* C30: a successful initialize with member count N leaves member_count = N
\* with every slot empty; while every slot is empty an initProposal by a
\* non-empty identity fails with NotAMember, and the slots stay empty until an
\* addMember succeeds; and a registry of member count and threshold 10 stays
\* one of ten empty slots, addMember failing with CapacityExceeded and
\* removeMember with ThresholdUnreachable.
C30_EmptyAfterInitialize ==
    [][/\ (ret' = Returned("initialize", "Ok"))
            => /\ AllEmpty(multisig')
               /\ \A mc \in 0..(MAX_MEMBERS + 1), th \in 0..(MAX_MEMBERS + 1) :
                     initialize_multisig("ok", mc, th)
                        => multisig'.member_count = mc
       /\ (multisig.owner = "program" /\ AllEmpty(multisig))
            => /\ AllEmpty(multisig') \/ ret' = Returned("addMember", "Ok")
               /\ \/ ret'.op # "initProposal"
                  \/ ret'.result = "NotAMember"
                  \/ \A k \in Keys \ {DefaultPubkey}, d \in Durations :
                        ~init_proposal(k, d)
       /\ (/\ multisig.owner = "program"
           /\ multisig.member_count = MAX_MEMBERS
           /\ multisig.threshold = MAX_MEMBERS)
            => /\ AllEmpty(multisig')
               /\ multisig'.member_count = MAX_MEMBERS
               /\ multisig'.threshold = MAX_MEMBERS
               /\ ret'.op = "addMember" => ret'.result = "CapacityExceeded"
               /\ ret'.op = "removeMember"
                     => ret'.result = "ThresholdUnreachable"]_vars

\* A non-empty identity's initProposal refused on a registry initialized
\* with member count and threshold 10.
C30_Witness ==
    /\ ret = Returned("initProposal", "NotAMember")
    /\ multisig.owner = "program"
    /\ multisig.member_count = MAX_MEMBERS
    /\ multisig.threshold = MAX_MEMBERS
    /\ AllEmpty(multisig)

\* The status when the unreachable-quorum test is evaluated before the
\* success test.
ResolveAgainstFirst(votes, n, threshold) ==
    LET votes_for == CountVotes(votes, n, VOTE_FOR)
        votes_against == CountVotes(votes, n, VOTE_AGAINST)
        votes_abstain == CountVotes(votes, n, VOTE_ABSTAIN)
        total_votes == votes_for + votes_against + votes_abstain
    IN IF QuorumUnreachable(votes_against, n, threshold) THEN "Failed"
       ELSE IF votes_for >= threshold THEN "Succeeded"
       ELSE IF total_votes = n /\ votes_for < threshold THEN "Failed"
       ELSE "Active"

\* C31: for every threshold t and member count n with 1 <= t <= n and every
\* vote vector of length n, the success test and the unreachable-quorum test
\* are never both true, the status castVote computes is the same with the two
\* tests in either order, and n - t does not go below zero.
C31_TestsExclusive ==
    LET n == multisig.member_count
        t == multisig.threshold
    IN (1 <= t /\ t <= n)
         => /\ ~(/\ CountVotes(proposal.votes, n, VOTE_FOR) >= t
                 /\ QuorumUnreachable(CountVotes(proposal.votes, n, VOTE_AGAINST),
                                      n, t))
            /\ n - t >= 0
            /\ Resolve(proposal.votes, n, t)
                  = ResolveAgainstFirst(proposal.votes, n, t)
            /\ (ret = Returned("castVote", "Ok"))
                  => proposal.result = ResolveAgainstFirst(proposal.votes, n, t)

\* A vote has made the proposal succeed with as many Against votes as the
\* quorum leaves room for.
C31_Witness ==
    /\ ret = Returned("castVote", "Ok")
    /\ proposal.result = "Succeeded"
    /\ multisig.member_count - multisig.threshold >= 1
    /\ CountVotes(proposal.votes, multisig.member_count, VOTE_AGAINST)
          = multisig.member_count - multisig.threshold

\* C32: every created proposal has expiry >= created_time: initProposal
\* never stores an expiry that has wrapped around the 64-bit range to a value
\* below created_time.
C32_ExpiryNotBeforeCreation ==
    proposal.created => proposal.expiry >= proposal.created_time

====
